---- MODULE Spec2Model ----
(***************************************************************************)
(* Model of the LeKiwi teleoperation bridge.                               *)
(*                                                                         *)
(*   - DaemonLeKiwiRobot (lerobot/common/robots/lekiwi/daemon_lekiwi.py):  *)
(*     connection lifecycle, get_data / get_observation with the three     *)
(*     "last known" caches, send_action.                                   *)
(*   - the remote agent's control loop (lerobot/scripts/run_mobile_so100   *)
(*     .py): command drain and dispatch, watchdog, observation publishing. *)
(*                                                                         *)
(* The two sides share no state; each has its own specification            *)
(* (SpecDaemon, SpecAgent) over the variables of this module.              *)
(***************************************************************************)
EXTENDS Integers, Sequences, FiniteSets, TLC

VARIABLES
    \* ---- daemon (DaemonLeKiwiRobot fields) ----
    is_connected,            \* self.is_connected
    zmq_context,             \* self.zmq_context
    zmq_cmd_socket,          \* self.zmq_cmd_socket
    zmq_observation_socket,  \* self.zmq_observation_socket
    last_frames,             \* self.last_frames
    last_present_speed,      \* self.last_present_speed
    last_remote_arm_state,   \* self.last_remote_arm_state
    speed_index,             \* self.speed_index
    created,                 \* number of zmq contexts created so far
    obsBuf,                  \* messages buffered on the observation socket
    cmdChan,                 \* messages put on the command (PUSH) socket
    prevRet,                 \* triple returned by the latest get_data call
    last,                    \* the latest step of the daemon and its outcome
    \* ---- remote agent (run_mobile_so100.py module state) ----
    pc,                      \* position of the control loop
    now,                     \* `now` of the current cycle, in tenths of a second
    last_cmd_time,           \* last_cmd_time, in tenths of a second
    wheel,                   \* wheel velocities last written to the base
    arm_goal,                \* Goal_Position last written to the arm motors
    cmd_socket,              \* the command socket's conflated slot
    video_socket,            \* the observation socket's conflated slot
    lastAccept,              \* `now` of the cycle that last accepted a wheel command
    stopForced,              \* the watchdog fired since the last wheel command applied
    cycle,                   \* what the current cycle has done so far
    \* ---- kinematics transform (pure functions of DaemonLeKiwiRobot) ----
    kin,                     \* the arguments the functions are applied to
    kinOut,                  \* the values they returned
    \* ---- get_data of the daemon, statement by statement ----
    gd,                      \* position in get_data and its locals
    \* ---- remote agent: capture thread, image snapshot, shutdown ----
    stop_event,              \* the cancellation flag (threading.Event)
    images_lock,             \* holder of the lock: "free", "capture", "control"
    latest_images_dict,      \* the shared map camera name -> encoded frame
    local_dict,              \* the capture thread's map of the round in progress
    images_dict_copy,        \* the control loop's copy for the observation
    cam,                     \* the capture thread's position
    ctl,                     \* the control loop's position
    published,               \* the shared map after each completed round
    shutdownLog              \* the shutdown steps carried out, in order

daemonVars == << is_connected, zmq_context, zmq_cmd_socket, zmq_observation_socket,
                 last_frames, last_present_speed, last_remote_arm_state,
                 speed_index, created, obsBuf, cmdChan, prevRet, last >>

agentVars == << pc, now, last_cmd_time, wheel, arm_goal, cmd_socket, video_socket,
               lastAccept, stopForced, cycle >>

kinVars == << kin, kinOut >>

camVars ==
    << stop_event, images_lock, latest_images_dict, local_dict,
       images_dict_copy, cam, ctl, published, shutdownLog >>

vars == << daemonVars, agentVars, kinVars, gd, camVars >>

(***************************************************************************)
(* Bounds of the model.                                                    *)
(***************************************************************************)
MaxBuf == 2          \* messages buffered on the observation socket
MaxSessions == 2     \* connect calls that create a transport
MaxTime == 12        \* the agent's clock stops here (tenths of a second)
MaxDelta == 6        \* longest time between two cycle starts (tenths of a second)
MaxCmdsPerCycle == 2 \* commands reaching the agent during one cycle
MaxGrid == 3         \* body commands tried: -MaxGrid..MaxGrid steps on each axis
MaxArrivals == 3     \* messages reaching the daemon during one get_data call
MaxRounds == 3       \* capture rounds started by the capture thread
MaxIter == 2         \* control-loop iterations completed

(***************************************************************************)
(* Transports.  A context or socket is None or an object of the n-th       *)
(* connect, open or closed.                                                *)
(***************************************************************************)
None == [id |-> 0, open |-> FALSE]

NewTransport(n) == [id |-> n, open |-> TRUE]

Close(t) == [t EXCEPT !.open = FALSE]

(***************************************************************************)
(* Observation messages (text received by recv_string).                    *)
(*   json   : "invalid"   json.loads raises                                *)
(*            "empty"     the empty string                                 *)
(*            "nonobject" valid JSON that is no object (.get raises)       *)
(*            "object"    a JSON object with the fields below              *)
(*   images : camera -> payload, "absent" when the key is missing; the     *)
(*            camera "extra" is one the daemon is not configured with      *)
(*            "jpgA","jpgB" base64 of a JPEG of frame A / B                *)
(*            "empty"       the empty string                               *)
(*            "garbage"     base64 of bytes imdecode cannot decode (None)  *)
(*            "badb64"      text b64decode raises on                       *)
(*   speed  : "absent", "S1", "S2" (mappings), "list" (a non-mapping)      *)
(*   arm    : "null" (null or missing), "A1", "A2" (6 numbers),            *)
(*            "short" (a list of 2 numbers), "text" (not numeric),         *)
(*            "scalar" (a bare number)                                     *)
(***************************************************************************)
CamNames == {"front", "wrist", "extra"}

Msg(j, f, w, s, a) ==
    [json |-> j,
     images |-> [c \in CamNames |-> IF c = "front" THEN f
                                    ELSE IF c = "wrist" THEN w ELSE "absent"],
     speed |-> s, arm |-> a]

\* The message with a frame of the camera "extra" added.
WithExtra(m) == [m EXCEPT !.images["extra"] = "jpgA"]

ObsMessages ==
    { Msg("object", "jpgA", "jpgA", "S1", "A1"),
      WithExtra(Msg("object", "jpgB", "empty", "S2", "A2")),
      Msg("object", "jpgB", "garbage", "S2", "A2"),
      Msg("object", "jpgB", "badb64", "S2", "A2"),
      Msg("object", "jpgB", "empty", "S2", "null"),
      Msg("object", "jpgB", "empty", "S2", "text"),
      Msg("object", "absent", "absent", "list", "A1"),
      Msg("object", "absent", "absent", "S1", "scalar"),
      Msg("object", "absent", "absent", "absent", "short"),
      Msg("invalid", "absent", "absent", "absent", "null"),
      Msg("nonobject", "absent", "absent", "absent", "null"),
      Msg("empty", "absent", "absent", "absent", "null") }

NoMsg == Msg("none", "absent", "absent", "absent", "null")

(***************************************************************************)
(* Cache values.                                                           *)
(***************************************************************************)
NoFrames == [c \in CamNames |-> "none"]      \* the dict {}

EmptySpeed == "{}"                           \* the dict {}

ZeroArm == "zeros6"                          \* torch.zeros(6)

Caches == << last_frames, last_present_speed, last_remote_arm_state >>

Conn == << is_connected, zmq_context, zmq_cmd_socket, zmq_observation_socket >>

(***************************************************************************)
(* The record of the latest step: the operation, the exception raised to   *)
(* the caller ("none" when it returned), the value returned, and the       *)
(* state the step started from.                                            *)
(***************************************************************************)
NoObs ==
    [arm |-> "none", wheels |-> << >>, body |-> << >>,
     images |-> [c \in CamNames |-> "none"]]

NoTriple == << NoFrames, "none", "none" >>

Step(op, raised, ret, msg, n, exc, obs, act) ==
    [op |-> op, raised |-> raised, ret |-> ret, msg |-> msg, ndrained |-> n,
     exc |-> exc, obs |-> obs, action |-> act,
     pre |-> Caches, preConn |-> Conn, preCreated |-> created,
     prePrevRet |-> prevRet, preCmd |-> cmdChan, preBuf |-> obsBuf]

(***************************************************************************)
(* get_data                                                                *)
(***************************************************************************)
\* The drain loop keeps the message received first instead of the last.
DrainKeepsFirst(buf) == IF buf = << >> THEN NoMsg ELSE Head(buf)

\* Lines 286-293: recv_string(NOBLOCK) until zmq.Again; last_msg is the
\* message received last (None when nothing was received).
RECURSIVE DrainFrom(_, _)
DrainFrom(buf, last_msg) ==
    IF buf = << >> THEN last_msg ELSE DrainFrom(Tail(buf), Head(buf))

DrainLast(buf) == DrainFrom(buf, NoMsg)

\* Lines 310-315 for one camera payload: the frame stored in `frames`
\* ("none": nothing stored), or "raise" when b64decode raises.
DecodeImage(payload) ==
    CASE payload = "jpgA" -> "A"
      [] payload = "jpgB" -> "B"
      [] payload = "badb64" -> "raise"
      [] OTHER -> "none"          \* absent key, empty string, imdecode None

\* Lines 308-315: the local `frames` built from images_dict.
DecodeImages(images) == [c \in CamNames |-> DecodeImage(images[c])]

ImagesRaise(images) == \E c \in CamNames : DecodeImage(images[c]) = "raise"

\* Line 305: observation.get("present_speed", {}).
NewSpeed(m) == IF m.speed = "absent" THEN EmptySpeed ELSE m.speed

\* Line 321: torch.tensor(new_arm_state, dtype=float32) raises on data that
\* is not numeric.
TensorRaises(arm) == arm = "text"

\* The no-data path returns the fresh locals of lines 274-276.
NoDataReturnsLocals(c) == << NoFrames, EmptySpeed, ZeroArm >>

\* Lines 282-284 and 295-297: nothing new, reuse all old data.
NoDataReturn(c) == c

\* The frames and speeds of a message without arm state adopted.
ArmAbsentAdoptsRest(c, frames, speed) == << frames, speed, c[3] >>

\* Lines 318 and 326-331: with follower_arm_state null or missing, the
\* decoded frames and speeds are dropped and the caches are returned.
ArmAbsentResult(c, frames, speed) == c

\* Lines 299-337: decode of the retained message m with caches c.
\* Result: the caches after the call, the returned triple, and whether an
\* exception was caught by the except clause.
Decode(c, m) ==
    IF m.json \in {"invalid", "nonobject"} \/ ImagesRaise(m.images)
    THEN \* lines 301-313 raise before any assignment to self
         [caches |-> c, ret |-> c, exc |-> TRUE]
    ELSE LET frames == DecodeImages(m.images) IN
         IF m.arm = "null"
         THEN LET r == ArmAbsentResult(c, frames, NewSpeed(m)) IN
              [caches |-> r, ret |-> r, exc |-> FALSE]
         ELSE IF TensorRaises(m.arm)
         THEN \* line 319 has run, line 321 raises: lines 333-336 return the
              \* caches as they are now
              LET c2 == << frames, c[2], c[3] >> IN
              [caches |-> c2, ret |-> c2, exc |-> TRUE]
         ELSE \* lines 319-325
              LET c2 == << frames, NewSpeed(m), m.arm >> IN
              [caches |-> c2, ret |-> c2, exc |-> FALSE]

\* get_data as a whole, on the buffered messages buf.
GetDataResult(c, buf) ==
    IF buf = << >>
    THEN [caches |-> c, ret |-> NoDataReturn(c), exc |-> FALSE, msg |-> NoMsg]
    ELSE LET m == DrainLast(buf) IN
         IF m.json \in {"none", "empty"}      \* line 295: not last_msg
         THEN [caches |-> c, ret |-> NoDataReturn(c), exc |-> FALSE, msg |-> m]
         ELSE [msg |-> m] @@ Decode(c, m)

(***************************************************************************)
(* Kinematics transform (lines 142-267), in exact rational arithmetic.     *)
(*                                                                         *)
(* The floating-point rounding of the code (relative error about 1e-16)    *)
(* is not modelled, except where it decides a result: the direction of a   *)
(* rounding at an exact half, and the sign of a wheel speed whose exact    *)
(* value is zero (cos(-90 deg) is 6e-17 in floating point).                *)
(*                                                                         *)
(* Units that keep every coefficient rational, with wheel_radius = 0.05    *)
(* and base_radius = 0.125:                                                *)
(*   X : x_cmd in units of sqrt(3) * pi * wheel_radius / 1800 m/s          *)
(*       (0.15115 mm/s)                                                    *)
(*   Y : y_cmd in units of pi * wheel_radius / 1800 m/s (0.08727 mm/s)     *)
(*   T : theta_cmd in tenths of a degree per second                        *)
(* A wheel speed of lines 207-211 is kept as n = 20 * deg/s, an integer.   *)
(* steps_per_deg = 4096/360, so n is |n| * 128 / 225 raw steps.            *)
(***************************************************************************)
Abs(i) == IF i < 0 THEN -i ELSE i

Max3(t) ==
    IF t[1] >= t[2] /\ t[1] >= t[3] THEN t[1] ELSE IF t[2] >= t[3] THEN t[2] ELSE t[3]

\* line 147: the largest magnitude of a raw command, 0x7FFF
MaxMagnitude == 32767

\* line 150: the sign bit of a raw command, 0x8000
SignBit == 32768

\* Line 146: int(round(num / den)); `up` is the direction floating point
\* takes when num / den is exactly a half.
RoundSteps(num, den, up) ==
    LET q == num \div den
        r == num % den IN
    IF 2 * r > den \/ (2 * r = den /\ up) THEN q + 1 ELSE q

\* The encoder without the sign bit on negative speeds.
EncodeDropsSign(negative, num, den, up) ==
    LET speed_int == RoundSteps(num, den, up) IN
    IF speed_int > MaxMagnitude THEN MaxMagnitude ELSE speed_int

\* Lines 143-152, degps_to_raw of a speed of num / den raw steps;
\* `negative` is the outcome of `degps < 0`.
DegpsToRaw(negative, num, den, up) ==
    LET speed_int == RoundSteps(num, den, up)
        clamped == IF speed_int > MaxMagnitude THEN MaxMagnitude ELSE speed_int IN
    IF negative THEN clamped + SignBit ELSE clamped

\* The decoder without the test of the sign bit.
DecodeIgnoresSign(raw_speed) == [sign |-> "+", mag |-> raw_speed % SignBit]

\* Lines 156-162, raw_to_degps: the speed is mag * 360 / 4096 deg/s with
\* the sign given (-0.0 for a magnitude of 0 with the sign bit set).
RawToDegps(raw_speed) ==
    [sign |-> IF (raw_speed \div SignBit) % 2 = 1 THEN "-" ELSE "+",
     mag |-> raw_speed % SignBit]

\* Lines 196-211: the three wheel speeds (left, back, right) as 20 * deg/s.
\*   left  = -sqrt(3)/2 x + y/2 + base_radius theta
\*   back  =  sqrt(3)/2 x + y/2 + base_radius theta
\*   right =             - y   + base_radius theta
WheelDegps20(X, Y, T) ==
    << -3 * X + Y + 5 * T, 3 * X + Y + 5 * T, -2 * Y + 5 * T >>

\* The scaling block left out.
NeverSaturates(nmax, max_raw) == FALSE

\* Line 217: max_raw_computed > max_raw, max_raw_computed = nmax * 128 / 225
Saturates(nmax, max_raw) == 128 * nmax > 225 * max_raw

\* Each wheel clamped on its own instead of the common factor.
ClampedSteps(n, nmax, max_raw) ==
    IF 128 * Abs(n) > 225 * max_raw THEN << max_raw, 1 >> ELSE << 128 * Abs(n), 225 >>

\* Lines 218-219: the speed scaled by max_raw / max_raw_computed, in raw
\* steps: |n| * max_raw / nmax.
ScaledSteps(n, nmax, max_raw) == << Abs(n) * max_raw, nmax >>

\* `degps < 0` for a wheel of exact speed n: floating point gives a value
\* of either sign when the exact speed of a moving base is zero.
WheelNegative(n, moving, noise) == n < 0 \/ (n = 0 /\ moving /\ noise)

\* Lines 165-224, body_to_wheel_raw.
BodyToWheelRaw(X, Y, T, max_raw, up, noise) ==
    LET n == WheelDegps20(X, Y, T)
        nmax == Max3(<< Abs(n[1]), Abs(n[2]), Abs(n[3]) >>)
        moving == X # 0 \/ Y # 0 \/ T # 0
        sat == Saturates(nmax, max_raw)
        st == [i \in 1..3 |-> IF sat THEN ScaledSteps(n[i], nmax, max_raw)
                              ELSE << 128 * Abs(n[i]), 225 >>]
        \* a speed scaled by 0 is a zero, which is not < 0
        neg == [i \in 1..3 |-> WheelNegative(n[i], moving, noise)
                               /\ ~(sat /\ max_raw = 0)] IN
    [wheels |-> [i \in 1..3 |-> DegpsToRaw(neg[i], st[i][1], st[i][2], up)],
     sat |-> sat,
     n |-> n,
     neg0 |-> [i \in 1..3 |-> WheelNegative(n[i], moving, noise)]]

\* Lines 227-267, wheel_raw_to_body, with M^-1 in closed form:
\*   x = (back - left) / sqrt(3), y = (left + back - 2 right) / 3,
\*   theta = (left + back + right) / (3 base_radius).
\* With k = 45 * (signed magnitude), a wheel turns at k / 512 deg/s and the
\* result is X = 10 (k2 - k1) / 1536, Y = 10 (k1 + k2 - 2 k3) / 1536,
\* T = (k1 + k2 + k3) / 384: the three numerators are returned.
WheelRawToBody(raw_list) ==
    LET d == [i \in 1..3 |-> RawToDegps(raw_list[i])]
        k == [i \in 1..3 |-> IF d[i].sign = "-" THEN -45 * d[i].mag ELSE 45 * d[i].mag] IN
    << 10 * (k[2] - k[1]), 10 * (k[1] + k[2] - 2 * k[3]), k[1] + k[2] + k[3] >>

(***************************************************************************)
(* get_observation, after get_data returned (lines 356-371).               *)
(***************************************************************************)
\* The speed mappings a message can carry; the remote agent publishes the
\* keys "1", "2", "3".
SpeedMap(s) ==
    CASE s = "S1" -> ("1" :> 100 @@ "2" :> 32868 @@ "3" :> 0)
      [] s = "S2" -> ("1" :> 0 @@ "2" :> 200 @@ "3" :> 32968)
      [] OTHER -> [k \in {} |-> 0]

\* wheel_raw.get(key, 0)
GetOr0(f, key) == IF key \in DOMAIN f THEN f[key] ELSE 0

\* Lines 245-249: raw_list of wheel_raw_to_body.
RawList(s) ==
    LET f == SpeedMap(s) IN
    << GetOr0(f, "left_wheel"), GetOr0(f, "back_wheel"), GetOr0(f, "right_wheel") >>

\* Line 356: wheel_raw.get on a value that is no mapping raises.
WheelRawToBodyRaises(s) == s = "list"

\* Line 359: torch.cat of a 0-dimensional tensor raises.
CatRaises(arm) == arm = "scalar"

\* self.cameras
ConfiguredCams == {"front", "wrist"}

\* Every frame of the cache handed on as it is, with no placeholder.
ObsImagesAllFrames(frames) ==
    [c \in {n \in CamNames : frames[n] # "none"} |-> frames[c]]

\* Lines 364-369: the frame of each configured camera, black when missing.
ObsImages(frames) ==
    [c \in ConfiguredCams |-> IF frames[c] = "none" THEN "black" ELSE frames[c]]

\* Lines 356-361: the state is the arm state followed by the body velocity
\* wheel_raw_to_body(present_speed) (x and y times 1000, kept here as the
\* numerators WheelRawToBody returns).
ObservationOf(ret) ==
    [arm |-> ret[3], wheels |-> RawList(ret[2]),
     body |-> WheelRawToBody(RawList(ret[2])), images |-> ObsImages(ret[1])]

ObservationRaises(ret) ==
    IF WheelRawToBodyRaises(ret[2]) THEN "AttributeError"
    ELSE IF CatRaises(ret[3]) THEN "RuntimeError"
    ELSE "none"

(***************************************************************************)
(* Guards of the lifecycle (lines 118, 347, 401, 425).                     *)
(***************************************************************************)
\* connect without the check of line 118
ConnectNeverRefuses(c) == FALSE

ConnectRefuses(c) == c

\* an operation without its `if not self.is_connected` check
NeverRequiresConnection(c) == FALSE

RequiresConnection(c) == ~c

Actions == {"a1", "a2"}

\* __del__ without the test of is_connected never disconnecting
DelNeverDisconnects(c) == FALSE

\* Line 436: getattr(self, "is_connected", False)
DelDisconnects(c) == c

\* self.speed_levels (lines 69-73) has three entries
SpeedLevels == 3

\* What a teleop layer can ask of from_teleop_action_to_motor_action.
TeleopKeys == {"speed_up", "speed_down", "other"}

\* The speed keys moving the index with no clamp.
SpeedIndexUnclamped(i, key) ==
    IF key = "speed_up" THEN i + 1 ELSE IF key = "speed_down" THEN i - 1 ELSE i

\* Lines 373-381: the body of from_teleop_action_to_motor_action is `pass`
\* (the speed keys are commented out), so the index stays as it is.
SpeedIndexAfter(i, key) == i

(***************************************************************************)
(* Initial state: DaemonLeKiwiRobot.__init__ (lines 46-88).                *)
(***************************************************************************)
InitDaemon ==
    /\ is_connected = FALSE
    /\ zmq_context = None
    /\ zmq_cmd_socket = None
    /\ zmq_observation_socket = None
    /\ last_frames = NoFrames
    /\ last_present_speed = EmptySpeed
    /\ last_remote_arm_state = ZeroArm
    /\ speed_index = 0
    /\ created = 0
    /\ obsBuf = << >>
    /\ cmdChan = << >>
    /\ prevRet = << NoFrames, EmptySpeed, ZeroArm >>
    /\ last = [op |-> "init", raised |-> "none", ret |-> NoTriple, msg |-> NoMsg,
               ndrained |-> 0, exc |-> FALSE, obs |-> NoObs, action |-> "none",
               pre |-> << NoFrames, EmptySpeed, ZeroArm >>,
               preConn |-> << FALSE, None, None, None >>, preCreated |-> 0,
               prePrevRet |-> << NoFrames, EmptySpeed, ZeroArm >>,
               preCmd |-> << >>, preBuf |-> << >>]

cacheVars == << last_frames, last_present_speed, last_remote_arm_state >>

connVars == << is_connected, zmq_context, zmq_cmd_socket, zmq_observation_socket,
               created >>

(***************************************************************************)
(* connect (lines 117-134)                                                 *)
(***************************************************************************)
Connect ==
    /\ UNCHANGED << agentVars, kinVars, gd, camVars >>
    /\ IF ConnectRefuses(is_connected)
       THEN /\ last' = Step("connect", "AlreadyConnected", NoTriple, NoMsg, 0, FALSE,
                            NoObs, "none")
            /\ UNCHANGED << connVars, cacheVars, speed_index, obsBuf, cmdChan, prevRet >>
       ELSE /\ created < MaxSessions
            /\ created' = created + 1
            /\ zmq_context' = NewTransport(created + 1)
            /\ zmq_cmd_socket' = NewTransport(created + 1)
            /\ zmq_observation_socket' = NewTransport(created + 1)
            /\ is_connected' = TRUE
            /\ obsBuf' = << >>
            /\ last' = Step("connect", "none", NoTriple, NoMsg, 0, FALSE, NoObs, "none")
            /\ UNCHANGED << cacheVars, speed_index, cmdChan, prevRet >>

(***************************************************************************)
(* disconnect (lines 424-433)                                              *)
(***************************************************************************)
Disconnect ==
    /\ UNCHANGED << agentVars, kinVars, gd, camVars >>
    /\ IF RequiresConnection(is_connected)
       THEN /\ last' = Step("disconnect", "NotConnected", NoTriple, NoMsg, 0, FALSE,
                            NoObs, "none")
            /\ UNCHANGED << connVars, cacheVars, speed_index, obsBuf, cmdChan, prevRet >>
       ELSE /\ zmq_observation_socket' = Close(zmq_observation_socket)
            /\ zmq_cmd_socket' = Close(zmq_cmd_socket)
            /\ zmq_context' = Close(zmq_context)
            /\ is_connected' = FALSE
            /\ obsBuf' = << >>
            /\ last' = Step("disconnect", "none", NoTriple, NoMsg, 0, FALSE, NoObs, "none")
            /\ UNCHANGED << created, cacheVars, speed_index, cmdChan, prevRet >>

(***************************************************************************)
(* A message of the remote agent reaches the observation socket.           *)
(***************************************************************************)
ObsArrive ==
    /\ UNCHANGED << agentVars, kinVars, gd, camVars >>
    /\ zmq_observation_socket.open
    /\ Len(obsBuf) < MaxBuf
    /\ \E m \in ObsMessages : obsBuf' = Append(obsBuf, m)
    /\ last' = Step("deliver", "none", NoTriple, NoMsg, 0, FALSE, NoObs, "none")
    /\ UNCHANGED << connVars, cacheVars, speed_index, cmdChan, prevRet >>

(***************************************************************************)
(* get_data (lines 269-337)                                                *)
(***************************************************************************)
GetData ==
    /\ UNCHANGED << agentVars, kinVars, gd, camVars >>
    /\ IF ~zmq_observation_socket.open
       THEN \* poll on a socket that is None or closed raises (line 280-281)
            /\ last' = Step("get_data", "TransportError", NoTriple, NoMsg, 0, FALSE,
                            NoObs, "none")
            /\ UNCHANGED << connVars, cacheVars, speed_index, obsBuf, cmdChan, prevRet >>
       ELSE LET r == GetDataResult(Caches, obsBuf) IN
            /\ last_frames' = r.caches[1]
            /\ last_present_speed' = r.caches[2]
            /\ last_remote_arm_state' = r.caches[3]
            /\ obsBuf' = << >>
            /\ prevRet' = r.ret
            /\ last' = Step("get_data", "none", r.ret, r.msg, Len(obsBuf), r.exc,
                            NoObs, "none")
            /\ UNCHANGED << connVars, speed_index, cmdChan >>

(***************************************************************************)
(* get_observation (lines 341-371)                                         *)
(***************************************************************************)
GetObservation ==
    /\ UNCHANGED << agentVars, kinVars, gd, camVars >>
    /\ IF RequiresConnection(is_connected)
       THEN /\ last' = Step("get_observation", "NotConnected", NoTriple, NoMsg, 0,
                            FALSE, NoObs, "none")
            /\ UNCHANGED << connVars, cacheVars, speed_index, obsBuf, cmdChan, prevRet >>
       ELSE LET r == GetDataResult(Caches, obsBuf)
                e == ObservationRaises(r.ret) IN
            /\ last_frames' = r.caches[1]
            /\ last_present_speed' = r.caches[2]
            /\ last_remote_arm_state' = r.caches[3]
            /\ obsBuf' = << >>
            /\ prevRet' = r.ret
            /\ last' = Step("get_observation", e, r.ret, r.msg, Len(obsBuf), r.exc,
                            IF e = "none" THEN ObservationOf(r.ret) ELSE NoObs, "none")
            /\ UNCHANGED << connVars, speed_index, cmdChan >>

(***************************************************************************)
(* send_action (lines 384-418)                                             *)
(***************************************************************************)
\* Lines 406-418 write the goal position to self.actuators, an attribute
\* this class never sets: the call returns goal_pos when a base class
\* provides it and raises AttributeError otherwise.  Neither outcome uses
\* zmq_cmd_socket.
SendActionOutcomes == {"none", "AttributeError"}

SendAction ==
    /\ UNCHANGED << agentVars, kinVars, gd, camVars >>
    /\ \E a \in Actions :
           IF RequiresConnection(is_connected)
           THEN /\ last' = Step("send_action", "NotConnected", NoTriple, NoMsg, 0,
                                FALSE, NoObs, a)
                /\ UNCHANGED << connVars, cacheVars, speed_index, obsBuf, cmdChan, prevRet >>
           ELSE /\ \E o \in SendActionOutcomes :
                       last' = Step("send_action", o, NoTriple, NoMsg, 0, FALSE, NoObs, a)
                /\ UNCHANGED << connVars, cacheVars, speed_index, obsBuf, cmdChan, prevRet >>

(***************************************************************************)
(* __del__ (lines 435-437)                                                 *)
(***************************************************************************)
Del ==
    /\ UNCHANGED << agentVars, kinVars, gd, camVars >>
    /\ IF DelDisconnects(is_connected)
       THEN \* disconnect, lines 430-433
            /\ zmq_observation_socket' = Close(zmq_observation_socket)
            /\ zmq_cmd_socket' = Close(zmq_cmd_socket)
            /\ zmq_context' = Close(zmq_context)
            /\ is_connected' = FALSE
            /\ obsBuf' = << >>
            /\ last' = Step("__del__", "none", NoTriple, NoMsg, 0, FALSE, NoObs, "none")
            /\ UNCHANGED << created, cacheVars, speed_index, cmdChan, prevRet >>
       ELSE /\ last' = Step("__del__", "none", NoTriple, NoMsg, 0, FALSE, NoObs, "none")
            /\ UNCHANGED << connVars, cacheVars, speed_index, obsBuf, cmdChan, prevRet >>

(***************************************************************************)
(* from_teleop_action_to_motor_action (lines 373-381)                      *)
(***************************************************************************)
FromTeleopAction ==
    /\ UNCHANGED << agentVars, kinVars, gd, camVars >>
    /\ \E key \in TeleopKeys :
         /\ speed_index' = SpeedIndexAfter(speed_index, key)
         /\ last' = Step("from_teleop", "none", NoTriple, NoMsg, 0, FALSE, NoObs, key)
    /\ UNCHANGED << connVars, cacheVars, obsBuf, cmdChan, prevRet >>

(***************************************************************************)
(* connect and disconnect when a transport call raises partway.  Nothing   *)
(* in either method catches the exception or undoes the lines already run. *)
(***************************************************************************)
\* Where connect can raise after creating the context: in the set-up of
\* the command socket (lines 126-127) or of the observation socket (lines
\* 131-132).
ConnectFailPoints == {"cmd_socket", "observation_socket"}

ConnectFails ==
    /\ UNCHANGED << agentVars, kinVars, gd, camVars >>
    /\ ~ConnectRefuses(is_connected)
    /\ created < MaxSessions
    /\ \E at \in ConnectFailPoints :
         /\ created' = created + 1
         /\ zmq_context' = NewTransport(created + 1)
         /\ zmq_cmd_socket' = NewTransport(created + 1)
         /\ zmq_observation_socket' =
                IF at = "observation_socket" THEN NewTransport(created + 1)
                ELSE zmq_observation_socket
         /\ obsBuf' = << >>
         /\ last' = Step("connect", "ZMQError", NoTriple, NoMsg, 0, FALSE, NoObs, at)
    /\ UNCHANGED << is_connected, cacheVars, speed_index, cmdChan, prevRet >>

\* Where disconnect can raise: closing the command socket (line 431) or
\* terminating the context (line 432).
DisconnectFailPoints == {"cmd_close", "term"}

DisconnectFails ==
    /\ UNCHANGED << agentVars, kinVars, gd, camVars >>
    /\ ~RequiresConnection(is_connected)
    /\ \E at \in DisconnectFailPoints :
         /\ zmq_observation_socket' = Close(zmq_observation_socket)
         /\ zmq_cmd_socket' = IF at = "term" THEN Close(zmq_cmd_socket) ELSE zmq_cmd_socket
         /\ obsBuf' = << >>
         /\ last' = Step("disconnect", "ZMQError", NoTriple, NoMsg, 0, FALSE, NoObs, at)
    /\ UNCHANGED << is_connected, zmq_context, created, cacheVars, speed_index, cmdChan,
                    prevRet >>

\* The lifecycle of the daemon with transport calls that may raise.
NextLifecycle ==
    \/ Connect
    \/ ConnectFails
    \/ Disconnect
    \/ DisconnectFails
    \/ Del
    \/ GetData
    \/ SendAction

NextDaemon ==
    \/ Connect
    \/ Disconnect
    \/ ObsArrive
    \/ GetData
    \/ GetObservation
    \/ SendAction
    \/ Del
    \/ FromTeleopAction

(***************************************************************************)
(* Properties of the daemon.                                               *)
(***************************************************************************)
GetOps == {"get_data", "get_observation"}

\* The step was a get_data call (direct, or made by get_observation) on an
\* open observation socket, so get_data returned a triple.
GetDataReturned == last.op \in GetOps /\ last.preConn[4].open

InitialTriple == << NoFrames, EmptySpeed, ZeroArm >>

\* C2: when decoding the retained message raises, the three caches are the
\* same after the call as before it and the returned triple is exactly the
\* pre-call caches.
C2_DecodeRaiseFallsBackEntirely ==
    (GetDataReturned /\ last.exc) => (Caches = last.pre /\ last.ret = last.pre)

C2_Witness ==
    /\ GetDataReturned /\ last.exc
    /\ last.msg.arm = "text"
    /\ last.pre[1] # DecodeImages(last.msg.images)

\* C3: an adopted message with one valid camera payload and one corrupt or
\* empty payload for a camera that has a cached frame: afterwards the frame
\* cache holds the new frame of the valid camera and still the previous
\* frame of the corrupt camera.
CorruptPayloads == {"empty", "garbage", "badb64"}

C3_CorruptCameraKeepsCachedFrame ==
    \A v, c \in CamNames :
        ( /\ GetDataReturned
          /\ last.ndrained > 0
          /\ last.msg.json = "object"
          /\ last.msg.arm \in {"A1", "A2"}
          /\ last.msg.images[v] \in {"jpgA", "jpgB"}
          /\ last.msg.images[c] \in CorruptPayloads
          /\ last.pre[1][c] # "none" )
        => ( /\ last_frames[v] = DecodeImage(last.msg.images[v])
             /\ last_frames[c] = last.pre[1][c] )

\* C4: when no message arrives within the poll window, get_data returns the
\* triple returned by the previous get_data call (the initial triple when
\* there was none) and leaves the three caches unchanged.
C4_NoMessageReturnsPreviousTriple ==
    (GetDataReturned /\ last.ndrained = 0)
        => (last.ret = last.prePrevRet /\ Caches = last.pre)

C4_Witness ==
    /\ GetDataReturned /\ last.ndrained = 0
    /\ last.prePrevRet # InitialTriple
    /\ last.prePrevRet[1] # NoFrames
    /\ last.prePrevRet[3] = ZeroArm

\* C5: on a Connected daemon neither get_data nor get_observation raises to
\* its caller, whatever the received message holds.
C5_DecodeFailuresNeverPropagate ==
    (last.op \in GetOps /\ last.preConn[1]) => last.raised = "none"

\* C6: connect on a Connected instance raises AlreadyConnected and changes
\* nothing: still Connected, same context and sockets, no new transport.
C6_SecondConnectRaisesAndChangesNothing ==
    (last.op = "connect" /\ last.preConn[1])
        => ( /\ last.raised = "AlreadyConnected"
             /\ Conn = last.preConn
             /\ created = last.preCreated
             /\ is_connected
             /\ zmq_context.open /\ zmq_cmd_socket.open
             /\ zmq_observation_socket.open
             /\ Caches = last.pre /\ obsBuf = last.preBuf )

C6_Witness ==
    /\ last.op = "connect" /\ last.raised = "AlreadyConnected"
    /\ created = MaxSessions

\* C7: on a Disconnected daemon disconnect, get_observation and send_action
\* raise NotConnected and leave the connection state, the sockets and the
\* three caches unchanged.
C7_DisconnectedOperationsRaiseNotConnected ==
    (last.op \in {"disconnect", "get_observation", "send_action"} /\ ~last.preConn[1])
        => ( /\ last.raised = "NotConnected"
             /\ Conn = last.preConn
             /\ created = last.preCreated
             /\ Caches = last.pre )

C7_Witness ==
    /\ last.op \in {"disconnect", "get_observation", "send_action"}
    /\ last.raised = "NotConnected"
    /\ created > 0 /\ ~zmq_context.open
    /\ Caches # InitialTriple

\* C8: a send_action call that succeeds on a Connected daemon puts one
\* command message carrying that action on the command channel.
C8_SendActionForwardsCommand ==
    (last.op = "send_action" /\ last.preConn[1] /\ last.raised = "none")
        => cmdChan = Append(last.preCmd, last.action)

\* C10: with several messages buffered, get_data decodes only the most
\* recently received one: the returned triple and the caches are those of a
\* call that finds that message alone, whatever the older messages held.
C10_OnlyLatestMessageDecoded ==
    (GetDataReturned /\ last.ndrained >= 2)
        => LET newest == last.preBuf[Len(last.preBuf)]
               alone == GetDataResult(last.pre, << newest >>) IN
           /\ Caches = alone.caches
           /\ last.ret = alone.ret
           /\ last.msg = newest
           /\ obsBuf = << >>

C10_Witness ==
    /\ GetDataReturned /\ last.ndrained >= 2
    /\ GetDataResult(last.pre, << last.preBuf[1] >>).caches # Caches
    /\ Caches # last.pre

\* C15: __del__ on a connected daemon closes both sockets, terminates the
\* context and leaves the daemon disconnected; on a daemon that is not
\* connected it changes nothing; it raises in neither case, and no
\* transport is open afterwards.
C15_DelDisconnectsWhenConnected ==
    last.op = "__del__" =>
        /\ last.raised = "none"
        /\ ~is_connected
        /\ ~zmq_context.open /\ ~zmq_cmd_socket.open /\ ~zmq_observation_socket.open
        /\ IF last.preConn[1]
           THEN /\ zmq_context = Close(last.preConn[2])
                /\ zmq_cmd_socket = Close(last.preConn[3])
                /\ zmq_observation_socket = Close(last.preConn[4])
           ELSE Conn = last.preConn
        /\ Caches = last.pre /\ created = last.preCreated

\* __del__ found the daemon connected with its transports open
C15_Witness ==
    /\ last.op = "__del__"
    /\ last.preConn[1]
    /\ last.preConn[2].open /\ last.preConn[3].open /\ last.preConn[4].open
    /\ ~zmq_context.open /\ ~is_connected

\* The wheel speeds (a, b, c) the remote agent published under "1", "2", "3".
PublishedSpeeds(s) == << SpeedMap(s)["1"], SpeedMap(s)["2"], SpeedMap(s)["3"] >>

\* C16: when get_observation adopts a message carrying present_speed
\* (a, b, c) under the keys "1", "2", "3", the body velocity in the state
\* it returns is the inverse kinematics of (a, b, c), which is not zero for
\* the non-zero speeds of the messages S1 and S2.
C16_ObservationReportsBodyVelocity ==
    ( /\ last.op = "get_observation" /\ last.raised = "none" /\ ~last.exc
      /\ last.msg.speed \in {"S1", "S2"}
      /\ last.ret[2] = last.msg.speed )
    => ( /\ last.obs.body = WheelRawToBody(PublishedSpeeds(last.msg.speed))
         /\ last.obs.body # << 0, 0, 0 >> )

\* C18: a get_data call that follows a successful connect with no message
\* arrived in between returns the initial triple (empty frames, empty
\* speeds, the zero arm vector): connect starts the session with the
\* caches reset.
C18_NewSessionStartsFromInitialCaches ==
    [][ ( /\ last.op = "connect" /\ last.raised = "none"
          /\ last'.op = "get_data" /\ last'.raised = "none"
          /\ last'.ndrained = 0 )
        => last'.ret = InitialTriple ]_vars

\* Length of an arm state: torch.zeros(6) and the lists A1, A2 have 6
\* elements, the list "short" has fewer, a number gives a 0-dimensional
\* tensor.
ArmLength(arm) ==
    CASE arm \in {ZeroArm, "A1", "A2"} -> 6
      [] arm = "short" -> 2
      [] OTHER -> -1

\* C19: the arm state held in the cache and the arm state get_data returns
\* have exactly 6 elements.
C19_ArmStateHasSixElements ==
    /\ ArmLength(last_remote_arm_state) = 6
    /\ (last.op \in GetOps /\ last.ret # NoTriple) => ArmLength(last.ret[3]) = 6

\* C20: speed_index is a valid index into speed_levels after any sequence
\* of operations.
C20_SpeedIndexInRange == speed_index \in 0..(SpeedLevels - 1)

\* a speed-up request has been handled on a connected daemon
C20_Witness ==
    /\ last.op = "from_teleop" /\ last.action = "speed_up"
    /\ is_connected
    /\ speed_index \in 0..(SpeedLevels - 1)

\* C21: when the retained message decodes without error but its
\* follower_arm_state is null or missing, get_data leaves the three caches
\* as they were and returns them, whatever frames and speeds the message
\* carried.
C21_ArmAbsentUpdatesNothing ==
    ( /\ GetDataReturned /\ last.ndrained > 0
      /\ last.msg.json = "object" /\ last.msg.arm = "null" /\ ~last.exc )
    => (Caches = last.pre /\ last.ret = last.pre)

\* the message carried a fresh frame and new speeds, the caches held others
C21_Witness ==
    /\ last.op = "get_data" /\ last.raised = "none" /\ ~last.exc
    /\ last.msg.json = "object" /\ last.msg.arm = "null"
    /\ last.msg.images["front"] = "jpgB" /\ last.msg.speed = "S2"
    /\ last.pre[1]["front"] = "A" /\ last.pre[2] = "S1"
    /\ last.ret[1]["front"] = "A"

\* C26: get_observation returns exactly one image for each configured
\* camera, the frame held for it or else the black placeholder, and none
\* for a camera that is not configured.
C26_OneImagePerConfiguredCamera ==
    (last.op = "get_observation" /\ last.raised = "none")
    => ( /\ DOMAIN last.obs.images = ConfiguredCams
         /\ \A c \in ConfiguredCams :
              last.obs.images[c] =
                  IF last.ret[1][c] = "none" THEN "black" ELSE last.ret[1][c] )

\* the frames held one of an unconfigured camera and none of the wrist camera
C26_Witness ==
    /\ last.op = "get_observation" /\ last.raised = "none"
    /\ last.ret[1]["extra"] = "A"
    /\ last.ret[1]["wrist"] = "none"
    /\ last.obs.images = [c \in ConfiguredCams |-> IF c = "front" THEN "B" ELSE "black"]

\* C30: in every reachable state, also after a connect or disconnect that
\* raised partway, is_connected holds exactly when the context is live and
\* both sockets are open.
C30_ConnectedIffTransportsOpen ==
    is_connected <=>
        (zmq_context.open /\ zmq_cmd_socket.open /\ zmq_observation_socket.open)

(***************************************************************************)
(* The remote agent: the control loop of run_mobile_so100.py.              *)
(*                                                                         *)
(* Command messages (text received by cmd_socket.recv_string):             *)
(*   json  : "invalid", "nonobject" (a bare number), "object"              *)
(*   arm   : "absent", "P1", "P2" (lists of 6), "short" (a list of 5),     *)
(*           "long" (a list of 7), "nonlist"                               *)
(*   vel   : "absent", "V1", "V2" (mappings), "nonmap" (no mapping)        *)
(***************************************************************************)
Cmd(j, a, v) == [json |-> j, arm |-> a, vel |-> v]

CmdMessages ==
    { Cmd("object", "absent", "V1"),
      Cmd("object", "P1", "V2"),
      Cmd("object", "P2", "absent"),
      Cmd("object", "short", "absent"),
      Cmd("object", "long", "nonmap"),
      Cmd("object", "absent", "absent"),
      Cmd("invalid", "absent", "absent") }

NoCmd == Cmd("none", "absent", "absent")

StopCommand == << 0, 0, 0 >>          \* robot.stop()

\* Line 157: command_speeds of a raw_velocity mapping; a missing key is 0.
CommandSpeeds(v) ==
    CASE v = "V1" -> << 100, -100, 0 >>
      [] v = "V2" -> << 0, 200, 0 >>
      [] OTHER -> StopCommand

\* The dispatch without the length test of line 147.
ArmWrittenUnchecked(m) == m.json = "object" /\ m.arm # "absent"

\* Lines 147-150: the warning "Received n arm_positions, expected 6".
ArmLengthWarned(m) == m.json = "object" /\ m.arm = "short"

\* Lines 143-153: whether the arm motors are written; zip (line 152) stops
\* at the sixth motor, so a longer list gives its first six positions.
ArmWritten(m) == m.json = "object" /\ m.arm \in {"P1", "P2", "long"}

\* A raw_velocity taken as all zeros when the field is missing.
WheelWrittenDefaulted(m) == m.json = "object"

\* Lines 155-159: whether set_velocity is reached (line 157 raises on a
\* raw_velocity that is no mapping).
WheelWritten(m) == m.json = "object" /\ m.vel \in {"V1", "V2"}

\* Lines 140-161: the dispatch ends in the except clause of line 160 when
\* json.loads raises, when an arm motor write raises (line 153) or when
\* raw_velocity is no mapping (line 157).
DispatchRaises(m, armRaised) ==
    \/ m.json # "object"
    \/ armRaised
    \/ (m.json = "object" /\ m.vel = "nonmap")

\* Line 158: set_velocity is called, which needs the arm part (lines
\* 143-153) to have ended without raising.
WheelSet(m, armRaised) == WheelWritten(m) /\ ~armRaised

\* The timer refreshed by every command that parses.
TimerRefreshedByAnyCommand(m, armRaised) == m.json = "object"

\* Line 159: last_cmd_time = now, right after set_velocity returned.
TimerRefreshed(m, armRaised) == WheelWritten(m) /\ ~armRaised

\* The message carries a raw_velocity field.
HasWheelField(m) == m.json = "object" /\ m.vel # "absent"

\* The watchdog threshold of line 164, 0.5 s, in tenths of a second.
WatchdogTenths == 5

\* The threshold taken as 5 s instead of 0.5 s.
ExpiredAfterFiveSeconds(t, l) == t - l > 10 * WatchdogTenths

\* Line 164: now - last_cmd_time > 0.5
WatchdogExpired(t, l) == t - l > WatchdogTenths

\* The watchdog leaving the timer as it is when it fires.
TimerKeptAfterStop(t, l) == l

\* Line 166: last_cmd_time = now after robot.stop().
TimerAfterStop(t, l) == t

NewCycle(t) ==
    [start |-> t, ndrained |-> 0, sent |-> 0, armWrites |-> << >>,
     wheelWrites |-> << >>, gotWheel |-> FALSE, fired |-> FALSE,
     lastArm |-> "absent", warned |-> << >>,
     lastMsg |-> NoCmd, lastRaised |-> FALSE, refreshes |-> << >>]

\* Lines 17-128: the state when the control loop is entered.
InitAgent ==
    /\ pc = "sleep"
    /\ now = 0
    /\ last_cmd_time = 0
    /\ wheel = StopCommand
    /\ arm_goal = "none"
    /\ cmd_socket = NoCmd
    /\ video_socket = << >>
    /\ lastAccept = -1
    /\ stopForced = FALSE
    /\ cycle = NewCycle(0)

\* A command of the daemon or teleop reaches the command socket; CONFLATE
\* (line 48) keeps only the newest unread message.
CmdArrive ==
    /\ UNCHANGED << daemonVars, kinVars, gd, camVars >>
    /\ cycle.sent < MaxCmdsPerCycle
    /\ \E m \in CmdMessages : cmd_socket' = m
    /\ cycle' = [cycle EXCEPT !.sent = @ + 1]
    /\ UNCHANGED << pc, now, last_cmd_time, wheel, arm_goal, video_socket, lastAccept,
                    stopForced >>

\* Lines 131-133: a cycle starts and samples the clock.
BeginCycle ==
    /\ UNCHANGED << daemonVars, kinVars, gd, camVars >>
    /\ pc = "sleep"
    /\ \E d \in 1..MaxDelta :
         /\ now + d <= MaxTime
         /\ now' = now + d
         /\ cycle' = NewCycle(now + d)
    /\ pc' = "drain"
    /\ UNCHANGED << last_cmd_time, wheel, arm_goal, cmd_socket, video_socket, lastAccept,
                    stopForced >>

\* Lines 135-161, one pass of the drain loop with a message pending: the
\* message is received and dispatched at once.
RecvCommand ==
    /\ UNCHANGED << daemonVars, kinVars, gd, camVars >>
    /\ pc = "drain"
    /\ cmd_socket # NoCmd
    /\ \E armRaised \in BOOLEAN :
         LET m == cmd_socket
             k == cycle.ndrained + 1 IN
         \* motors_bus.write (line 153) can raise only where it is called
         /\ armRaised => ArmWritten(m)
         /\ cmd_socket' = NoCmd
         /\ arm_goal' = IF ArmWritten(m)
                        THEN (IF armRaised THEN "partial" ELSE m.arm)
                        ELSE arm_goal
         /\ wheel' = IF WheelSet(m, armRaised) THEN CommandSpeeds(m.vel) ELSE wheel
         /\ last_cmd_time' = IF TimerRefreshed(m, armRaised) THEN now ELSE last_cmd_time
         /\ lastAccept' = IF WheelSet(m, armRaised) THEN now ELSE lastAccept
         /\ stopForced' = IF WheelSet(m, armRaised) THEN FALSE ELSE stopForced
         /\ cycle' = [cycle EXCEPT
                        !.ndrained = k,
                        !.armWrites = IF ArmWritten(m) THEN Append(@, k) ELSE @,
                        !.wheelWrites = IF WheelSet(m, armRaised) THEN Append(@, k) ELSE @,
                        !.gotWheel = @ \/ HasWheelField(m),
                        !.lastArm = IF m.json = "object" THEN m.arm ELSE "absent",
                        !.warned = IF ArmLengthWarned(m) THEN Append(@, k) ELSE @,
                        !.lastMsg = m,
                        !.lastRaised = DispatchRaises(m, armRaised),
                        !.refreshes = IF TimerRefreshed(m, armRaised)
                                      THEN Append(@, k) ELSE @]
    /\ UNCHANGED << pc, now, video_socket >>

\* Lines 137-139: zmq.Again ends the drain loop.
DrainDone ==
    /\ UNCHANGED << daemonVars, kinVars, gd, camVars >>
    /\ pc = "drain"
    /\ cmd_socket = NoCmd
    /\ pc' = "watchdog"
    /\ UNCHANGED << now, last_cmd_time, wheel, arm_goal, cmd_socket, video_socket,
                    lastAccept, stopForced, cycle >>

\* Lines 163-166: the watchdog.
Watchdog ==
    /\ UNCHANGED << daemonVars, kinVars, gd, camVars >>
    /\ pc = "watchdog"
    /\ IF WatchdogExpired(now, last_cmd_time)
       THEN /\ wheel' = StopCommand
            /\ last_cmd_time' = TimerAfterStop(now, last_cmd_time)
            /\ stopForced' = TRUE
            /\ cycle' = [cycle EXCEPT !.fired = TRUE]
       ELSE UNCHANGED << wheel, last_cmd_time, stopForced, cycle >>
    /\ pc' = "publish"
    /\ UNCHANGED << now, arm_goal, cmd_socket, video_socket, lastAccept >>

\* Lines 168-209: the observation is built and sent, then the loop sleeps.
Publish ==
    /\ UNCHANGED << daemonVars, kinVars, gd, camVars >>
    /\ pc = "publish"
    /\ video_socket' = << wheel >>
    /\ pc' = "sleep"
    /\ UNCHANGED << now, last_cmd_time, wheel, arm_goal, cmd_socket, lastAccept,
                    stopForced, cycle >>

NextAgent ==
    \/ CmdArrive
    \/ BeginCycle
    \/ RecvCommand
    \/ DrainDone
    \/ Watchdog
    \/ Publish

(***************************************************************************)
(* The kinematics functions applied to arguments drawn from bounded sets.  *)
(***************************************************************************)
GridX == {661 * i : i \in -MaxGrid..MaxGrid}      \* up to 0.3 m/s

GridY == {421 * i : i \in -MaxGrid..MaxGrid}      \* up to 0.11 m/s

GridT == {290 * i : i \in -MaxGrid..MaxGrid}      \* up to 87 deg/s

DefaultMaxRaw == 3000

MaxRaws == {0, 1, 1000, DefaultMaxRaw, MaxMagnitude}

KinIdle == [kind |-> "idle", x |-> 0, y |-> 0, theta |-> 0, max_raw |-> 0,
            mag |-> 0, sign |-> "+"]

BodyInputs ==
    {[kind |-> "body", x |-> X, y |-> Y, theta |-> T, max_raw |-> m,
      mag |-> 0, sign |-> "+"] : X \in GridX, Y \in GridY, T \in GridT, m \in MaxRaws}

CodecInputs ==
    {[kind |-> "codec", x |-> 0, y |-> 0, theta |-> 0, max_raw |-> 0,
      mag |-> m, sign |-> sg] : m \in 0..MaxMagnitude, sg \in {"+", "-"}}

NoKinOut ==
    [op |-> "none", wheels |-> << 0, 0, 0 >>, sat |-> FALSE, n |-> << 0, 0, 0 >>,
     neg0 |-> << FALSE, FALSE, FALSE >>, body |-> << 0, 0, 0 >>, raw |-> 0,
     dec |-> [sign |-> "+", mag |-> 0]]

InitKinIdle == kin = KinIdle /\ kinOut = NoKinOut

KinInputs == BodyInputs \cup CodecInputs

\* A fresh daemon and the arguments of one call of a kinematics function.
(***************************************************************************)
(* Remote agent: the capture thread and the shared image map (lines        *)
(* 96-122): the state when the control loop is entered.                    *)
(***************************************************************************)
\* cameras.items() (line 108): the cameras in the order of the map.
CamOrder == << "front", "wrist" >>

AgentCams == { CamOrder[i] : i \in 1..Len(CamOrder) }

\* A camera name that is no key of a map.
NoFrame == [round |-> 0, data |-> "absent"]

\* Lines 110-114: the frame of a round, encoded ("jpg") or "" when
\* cv2.imencode reports failure.
Encoded(r) == { [round |-> r, data |-> d] : d \in {"jpg", ""} }

\* Lines 96, 107: an empty map.
EmptyDict == [c \in AgentCams |-> NoFrame]

\* Lines 96-97, 120-122, 130: the capture thread was started, the flag is
\* clear, the lock free, the control loop about to begin.
InitCam ==
    /\ stop_event = FALSE
    /\ images_lock = "free"
    /\ latest_images_dict = EmptyDict
    /\ local_dict = EmptyDict
    /\ images_dict_copy = EmptyDict
    /\ cam = [pc |-> "test", round |-> 0, i |-> 1, flagReads |-> 0]
    /\ ctl = [pc |-> "loop", iter |-> 0, i |-> 1, step |-> 1,
              flagReads |-> 0, copied |-> FALSE]
    /\ published = << EmptyDict >>
    /\ shutdownLog = << >>

\* get_data has not been called (locals of lines 286-293).
GdIdle ==
    [pc |-> "idle", last_msg |-> NoMsg, recvs |-> 0, agains |-> 0,
     arrived |-> 0, ret |-> NoTriple]

InitGd == gd = GdIdle

InitKin ==
    /\ InitDaemon /\ InitAgent /\ InitGd /\ InitCam
    /\ kin \in KinInputs /\ kinOut = NoKinOut

\* body_to_wheel_raw(x, y, theta, max_raw = kin.max_raw)
KinForward ==
    /\ UNCHANGED << daemonVars, agentVars, gd, camVars, kin >>
    /\ kin.kind = "body" /\ kinOut.op = "none"
    /\ \E up \in BOOLEAN, noise \in BOOLEAN :
         LET r == BodyToWheelRaw(kin.x, kin.y, kin.theta, kin.max_raw, up, noise) IN
         kinOut' = [kinOut EXCEPT !.op = "forward", !.wheels = r.wheels,
                                  !.sat = r.sat, !.n = r.n, !.neg0 = r.neg0]

\* wheel_raw_to_body of the wheel commands body_to_wheel_raw returned
KinInverse ==
    /\ UNCHANGED << daemonVars, agentVars, gd, camVars, kin >>
    /\ kin.kind = "body" /\ kinOut.op = "forward"
    /\ kinOut' = [kinOut EXCEPT !.op = "inverse", !.body = WheelRawToBody(kinOut.wheels)]

\* degps_to_raw of the speed of kin.mag raw steps with sign kin.sign
\* (degps = sign mag * 360 / 4096; -0.0 is not < 0)
KinEncode ==
    /\ UNCHANGED << daemonVars, agentVars, gd, camVars, kin >>
    /\ kin.kind = "codec" /\ kinOut.op = "none"
    /\ \E up \in BOOLEAN :
         kinOut' = [kinOut EXCEPT !.op = "encode",
                      !.raw = DegpsToRaw(kin.sign = "-" /\ kin.mag > 0, kin.mag, 1, up)]

\* raw_to_degps of the value degps_to_raw returned
KinDecode ==
    /\ UNCHANGED << daemonVars, agentVars, gd, camVars, kin >>
    /\ kin.kind = "codec" /\ kinOut.op = "encode"
    /\ kinOut' = [kinOut EXCEPT !.op = "decode", !.dec = RawToDegps(kinOut.raw)]

NextKin ==
    \/ KinForward
    \/ KinInverse
    \/ KinEncode
    \/ KinDecode

(***************************************************************************)
(* get_data statement by statement (lines 278-337): the poll, the drain    *)
(* loop with one recv_string call a step, then the decode and the return.  *)
(***************************************************************************)
\* The messages that arrive while get_data runs: one that decodes, the
\* empty string and text that is no JSON.
DrainMessages ==
    { Msg("object", "jpgA", "jpgA", "S1", "A1"),
      Msg("empty", "absent", "absent", "absent", "null"),
      Msg("invalid", "absent", "absent", "absent", "null") }

\* A recv_string that waits for a message instead of raising zmq.Again.
DrainNeverStops(buf) == FALSE

\* Lines 290-293: recv_string(zmq.NOBLOCK) raises zmq.Again, which breaks
\* out of the loop, exactly when no message is buffered.
DrainStops(buf) == buf = << >>

\* get_data is called on a connected daemon.
GdCall ==
    /\ UNCHANGED << daemonVars, agentVars, kinVars, camVars >>
    /\ gd.pc \in {"idle", "returned"}
    /\ zmq_observation_socket.open
    /\ gd' = [GdIdle EXCEPT !.pc = "poll"]

\* A message of the remote agent reaches the socket, also during the call.
DrainArrive ==
    /\ UNCHANGED << agentVars, kinVars, camVars >>
    /\ zmq_observation_socket.open
    /\ Len(obsBuf) < MaxBuf
    /\ gd.arrived < MaxArrivals
    /\ \E m \in DrainMessages : obsBuf' = Append(obsBuf, m)
    /\ gd' = [gd EXCEPT !.arrived = @ + 1]
    /\ UNCHANGED << connVars, cacheVars, speed_index, cmdChan, prevRet, last >>

\* Lines 281-284: nothing arrived within the 15 ms of the poll.
GdPollTimeout ==
    /\ UNCHANGED << agentVars, kinVars, camVars >>
    /\ gd.pc = "poll"
    /\ obsBuf = << >>
    /\ LET r == GetDataResult(Caches, << >>) IN
       /\ prevRet' = r.ret
       /\ last' = Step("get_data", "none", r.ret, r.msg, 0, r.exc, NoObs, "none")
    /\ gd' = [gd EXCEPT !.pc = "returned", !.ret = GetDataResult(Caches, << >>).ret]
    /\ UNCHANGED << connVars, cacheVars, speed_index, obsBuf, cmdChan >>

\* Line 282: the poll reports the socket readable.
GdPollReady ==
    /\ UNCHANGED << daemonVars, agentVars, kinVars, camVars >>
    /\ gd.pc = "poll"
    /\ obsBuf # << >>
    /\ gd' = [gd EXCEPT !.pc = "drain"]

\* Lines 290-291: recv_string returns the oldest buffered message.
GdRecv ==
    /\ UNCHANGED << agentVars, kinVars, camVars >>
    /\ gd.pc = "drain"
    /\ obsBuf # << >>
    /\ obsBuf' = Tail(obsBuf)
    /\ gd' = [gd EXCEPT !.last_msg = Head(obsBuf), !.recvs = @ + 1]
    /\ UNCHANGED << connVars, cacheVars, speed_index, cmdChan, prevRet, last >>

\* Lines 292-337: zmq.Again ends the loop; the retained message is decoded
\* and the triple returned.
GdAgain ==
    /\ UNCHANGED << agentVars, kinVars, camVars >>
    /\ gd.pc = "drain"
    /\ DrainStops(obsBuf)
    /\ LET r == GetDataResult(Caches, IF gd.last_msg = NoMsg THEN << >>
                                      ELSE << gd.last_msg >>) IN
       /\ last_frames' = r.caches[1]
       /\ last_present_speed' = r.caches[2]
       /\ last_remote_arm_state' = r.caches[3]
       /\ prevRet' = r.ret
       /\ last' = Step("get_data", "none", r.ret, r.msg, gd.recvs, r.exc, NoObs, "none")
    /\ gd' = [gd EXCEPT !.pc = "returned", !.agains = @ + 1, !.ret = prevRet']
    /\ UNCHANGED << connVars, speed_index, obsBuf, cmdChan >>

\* The steps of the thread that called get_data.
GdStep ==
    \/ GdPollTimeout
    \/ GdPollReady
    \/ GdRecv
    \/ GdAgain

NextDrain ==
    \/ Connect
    \/ GdCall
    \/ DrainArrive
    \/ GdStep

(***************************************************************************)
(* Remote agent: capture thread (lines 101-117), image snapshot of the     *)
(* control loop (lines 183-184) and shutdown (lines 211-221), one          *)
(* statement a step so that the two threads interleave.                    *)
(***************************************************************************)
\* A capture loop that tests nothing.
CaptureIgnoresFlag(flag) == TRUE

\* Line 106: while not stop_event.is_set().
CaptureContinues(flag) == ~flag

\* A lock that never makes a thread wait.
CanAcquireAlways(lock) == TRUE

\* Lines 115, 183: with images_lock.
CanAcquire(lock) == lock = "free"

\* A shutdown that releases the motor bus and the transports first.
ShutdownBusFirst ==
    << "disconnect_bus", "close_cmd", "close_video", "term", "set", "join", "stop" >>

\* Lines 215-221: the statements of the finally clause.
ShutdownSteps ==
    << "set", "join", "stop", "disconnect_bus", "close_cmd", "close_video", "term" >>

\* Lines 106-107: the flag is clear, a round begins with an empty local map.
CaptureTest ==
    /\ UNCHANGED << daemonVars, agentVars, kinVars, gd >>
    /\ cam.pc = "test"
    /\ CaptureContinues(stop_event)
    /\ cam.round < MaxRounds
    /\ cam' = [cam EXCEPT !.pc = "capture", !.round = @ + 1, !.i = 1,
                          !.flagReads = @ + 1]
    /\ local_dict' = EmptyDict
    /\ UNCHANGED << stop_event, images_lock, latest_images_dict,
                    images_dict_copy, ctl, published, shutdownLog >>

\* Line 106: the flag is set, the loop and the thread end.
CaptureExit ==
    /\ UNCHANGED << daemonVars, agentVars, kinVars, gd >>
    /\ cam.pc = "test"
    /\ ~CaptureContinues(stop_event)
    /\ cam' = [cam EXCEPT !.pc = "done", !.flagReads = @ + 1]
    /\ UNCHANGED << stop_event, images_lock, latest_images_dict, local_dict,
                    images_dict_copy, ctl, published, shutdownLog >>

\* Lines 108-114: one camera is read and encoded into the local map.
CaptureFrame ==
    /\ UNCHANGED << daemonVars, agentVars, kinVars, gd >>
    /\ cam.pc = "capture"
    /\ \E f \in Encoded(cam.round) :
          local_dict' = [local_dict EXCEPT ![CamOrder[cam.i]] = f]
    /\ cam' = IF cam.i < Len(CamOrder) THEN [cam EXCEPT !.i = @ + 1]
              ELSE [cam EXCEPT !.pc = "acquire", !.i = 1]
    /\ UNCHANGED << stop_event, images_lock, latest_images_dict,
                    images_dict_copy, ctl, published, shutdownLog >>

\* Lines 109-110: async_read or imencode raises; nothing catches it in the
\* thread, which ends without publishing the round.
CaptureRaises ==
    /\ UNCHANGED << daemonVars, agentVars, kinVars, gd >>
    /\ cam.pc = "capture"
    /\ cam' = [cam EXCEPT !.pc = "done"]
    /\ UNCHANGED << stop_event, images_lock, latest_images_dict, local_dict,
                    images_dict_copy, ctl, published, shutdownLog >>

\* Line 115: the capture thread takes the lock.
CaptureAcquire ==
    /\ UNCHANGED << daemonVars, agentVars, kinVars, gd >>
    /\ cam.pc = "acquire"
    /\ CanAcquire(images_lock)
    /\ images_lock' = "capture"
    /\ cam' = [cam EXCEPT !.pc = "update", !.i = 1]
    /\ UNCHANGED << stop_event, latest_images_dict, local_dict,
                    images_dict_copy, ctl, published, shutdownLog >>

\* Lines 116-117: update stores one key after the other; after the last one
\* the lock is released and the thread sleeps.
CaptureUpdate ==
    /\ UNCHANGED << daemonVars, agentVars, kinVars, gd >>
    /\ cam.pc = "update"
    /\ latest_images_dict' =
          [latest_images_dict EXCEPT ![CamOrder[cam.i]] = local_dict[CamOrder[cam.i]]]
    /\ IF cam.i < Len(CamOrder)
       THEN /\ cam' = [cam EXCEPT !.i = @ + 1]
            /\ UNCHANGED << images_lock, published >>
       ELSE /\ cam' = [cam EXCEPT !.pc = "test", !.i = 1]
            /\ images_lock' = "free"
            /\ published' = Append(published, latest_images_dict')
    /\ UNCHANGED << stop_event, local_dict, images_dict_copy, ctl, shutdownLog >>

\* The steps the capture thread takes when it is scheduled.
CaptureStep ==
    \/ CaptureTest
    \/ CaptureExit
    \/ CaptureFrame
    \/ CaptureAcquire
    \/ CaptureUpdate

\* Lines 131-181: the part of a control cycle before the snapshot
\* (while True: no test of the flag).
CtlCycle ==
    /\ UNCHANGED << daemonVars, agentVars, kinVars, gd >>
    /\ ctl.pc = "loop"
    /\ ctl.iter < MaxIter
    /\ ctl' = [ctl EXCEPT !.pc = "acquire", !.copied = FALSE]
    /\ UNCHANGED << stop_event, images_lock, latest_images_dict, local_dict,
                    images_dict_copy, cam, published, shutdownLog >>

\* Line 183: the control loop takes the lock.
CtlAcquire ==
    /\ UNCHANGED << daemonVars, agentVars, kinVars, gd >>
    /\ ctl.pc = "acquire"
    /\ CanAcquire(images_lock)
    /\ images_lock' = "control"
    /\ images_dict_copy' = EmptyDict
    /\ ctl' = [ctl EXCEPT !.pc = "copy", !.i = 1]
    /\ UNCHANGED << stop_event, latest_images_dict, local_dict, cam,
                    published, shutdownLog >>

\* Lines 184-209: dict(latest_images_dict) copies one key after the other;
\* after the last one the lock is released, the observation is sent and
\* the cycle ends with the sleep.
CtlCopy ==
    /\ UNCHANGED << daemonVars, agentVars, kinVars, gd >>
    /\ ctl.pc = "copy"
    /\ images_dict_copy' =
          [images_dict_copy EXCEPT ![CamOrder[ctl.i]] = latest_images_dict[CamOrder[ctl.i]]]
    /\ IF ctl.i < Len(CamOrder)
       THEN /\ ctl' = [ctl EXCEPT !.i = @ + 1]
            /\ UNCHANGED images_lock
       ELSE /\ ctl' = [ctl EXCEPT !.pc = "loop", !.i = 1, !.iter = @ + 1,
                                  !.copied = TRUE]
            /\ images_lock' = "free"
    /\ UNCHANGED << stop_event, latest_images_dict, local_dict, cam,
                    published, shutdownLog >>

\* Lines 130-214: KeyboardInterrupt or an uncaught exception anywhere in
\* the loop; a with block in progress releases the lock; the finally
\* clause begins.
Interrupt ==
    /\ UNCHANGED << daemonVars, agentVars, kinVars, gd >>
    /\ ctl.pc \in {"loop", "acquire", "copy"}
    /\ ctl' = [ctl EXCEPT !.pc = "finally", !.step = 1]
    /\ images_lock' = IF images_lock = "control" THEN "free" ELSE images_lock
    /\ UNCHANGED << stop_event, latest_images_dict, local_dict,
                    images_dict_copy, cam, published, shutdownLog >>

\* Lines 215-221: the next statement of the finally clause; join returns
\* only when the capture thread has ended.
ShutdownStep ==
    /\ UNCHANGED << daemonVars, agentVars, kinVars, gd >>
    /\ ctl.pc = "finally"
    /\ ShutdownSteps[ctl.step] = "join" => cam.pc = "done"
    /\ stop_event' = (stop_event \/ ShutdownSteps[ctl.step] = "set")
    /\ shutdownLog' = Append(shutdownLog, ShutdownSteps[ctl.step])
    /\ ctl' = IF ctl.step < Len(ShutdownSteps) THEN [ctl EXCEPT !.step = @ + 1]
              ELSE [ctl EXCEPT !.pc = "exited"]
    /\ UNCHANGED << images_lock, latest_images_dict, local_dict,
                    images_dict_copy, cam, published >>

\* Lines 215-221: a statement of the finally clause raises (a second
\* interrupt, a bus or socket error); the rest of the clause is skipped.
ShutdownRaises ==
    /\ UNCHANGED << daemonVars, agentVars, kinVars, gd >>
    /\ ctl.pc = "finally"
    /\ ctl' = [ctl EXCEPT !.pc = "exited"]
    /\ UNCHANGED << stop_event, images_lock, latest_images_dict, local_dict,
                    images_dict_copy, cam, published, shutdownLog >>

NextCam ==
    \/ CaptureStep
    \/ CaptureRaises
    \/ CtlCycle
    \/ CtlAcquire
    \/ CtlCopy
    \/ Interrupt
    \/ ShutdownStep
    \/ ShutdownRaises

Init == InitDaemon /\ InitAgent /\ InitKinIdle /\ InitGd /\ InitCam

SpecDaemon == Init /\ [][NextDaemon]_vars

SpecAgent == Init /\ [][NextAgent]_vars

SpecKin == InitKin /\ [][NextKin]_vars

SpecLifecycle == Init /\ [][NextLifecycle]_vars

\* The thread running get_data keeps running.
SpecDrain == Init /\ [][NextDrain]_vars /\ WF_vars(GdStep)

\* The capture thread keeps being scheduled.
SpecCam == Init /\ [][NextCam]_vars /\ WF_vars(CaptureStep)

(***************************************************************************)
(* Properties of the remote agent.                                         *)
(***************************************************************************)
\* The cycle has run its drain loop and its watchdog.
CycleEnded == pc \in {"publish", "sleep"} /\ cycle.start = now /\ now > 0

\* C1: in a cycle that starts more than 0.5 s after the last wheel command
\* was accepted and receives no new wheel command, the wheel command in
\* force at the end of the cycle is the stop command.
C1_WatchdogStopsWheels ==
    ( /\ CycleEnded
      /\ lastAccept >= 0
      /\ now - lastAccept > WatchdogTenths
      /\ ~cycle.gotWheel )
    => wheel = StopCommand

C1_Witness ==
    /\ CycleEnded
    /\ lastAccept >= 0
    /\ now - lastAccept > WatchdogTenths
    /\ ~cycle.gotWheel
    /\ cycle.fired
    /\ cycle.ndrained > 0

\* C9: in each cycle only the last command drained is applied: a command
\* drained earlier in the cycle causes no arm write and no wheel write.
C9_OnlyLastDrainedCommandApplied ==
    (pc \in {"watchdog", "publish"})
        => ( /\ \A i \in DOMAIN cycle.armWrites : cycle.armWrites[i] = cycle.ndrained
             /\ \A i \in DOMAIN cycle.wheelWrites : cycle.wheelWrites[i] = cycle.ndrained )

\* C17, as stated: a command whose arm_positions list is shorter or longer
\* than 6 is logged and writes no arm motor.
C17_WrongLengthNeverWritten ==
    (cycle.ndrained > 0 /\ cycle.lastArm \in {"short", "long"})
    => ( /\ \E i \in DOMAIN cycle.warned : cycle.warned[i] = cycle.ndrained
         /\ \A i \in DOMAIN cycle.armWrites : cycle.armWrites[i] # cycle.ndrained )

\* C17, amended: a command whose arm_positions list is shorter than 6 is
\* logged and writes no arm motor; one whose list is longer than 6 is not
\* logged and its first six positions are written, one motor after the
\* other (up to the first write that raises, if one does); the loop goes
\* on in both cases.
C17_ShortSkippedLongTruncated ==
    /\ (cycle.ndrained > 0 /\ cycle.lastArm = "short")
       => ( /\ \E i \in DOMAIN cycle.warned : cycle.warned[i] = cycle.ndrained
            /\ \A i \in DOMAIN cycle.armWrites : cycle.armWrites[i] # cycle.ndrained
            /\ arm_goal # "short" )
    /\ (cycle.ndrained > 0 /\ cycle.lastArm = "long")
       => ( /\ \A i \in DOMAIN cycle.warned : cycle.warned[i] # cycle.ndrained
            /\ \E i \in DOMAIN cycle.armWrites : cycle.armWrites[i] = cycle.ndrained
            /\ (arm_goal = "long" \/ (cycle.lastRaised /\ arm_goal = "partial")) )
    /\ (cycle.ndrained > 0 /\ cycle.lastArm \in {"short", "long"})
       => pc \in {"drain", "watchdog", "publish", "sleep"}

\* a short list was skipped with a warning, then a long one was written,
\* and the cycle went on to publish
C17_Witness ==
    /\ pc = "publish"
    /\ cycle.ndrained = 2 /\ cycle.lastArm = "long"
    /\ cycle.warned = << 1 >>
    /\ cycle.armWrites = << 2 >>
    /\ arm_goal = "long"

InSeq(q, k) == \E i \in DOMAIN q : q[i] = k

\* A command of unexpected shape: text that is no JSON, or a JSON object
\* with neither arm_positions nor raw_velocity.
UnexpectedShape(m) ==
    \/ m.json = "invalid"
    \/ (m.json = "object" /\ m.arm = "absent" /\ m.vel = "absent")

C28_TimerRefreshedOnlyByWheelWrite ==
    /\ \A i \in DOMAIN cycle.refreshes : InSeq(cycle.wheelWrites, cycle.refreshes[i])
    /\ InSeq(cycle.refreshes, cycle.ndrained)
          => (cycle.lastMsg.vel \in {"V1", "V2"} /\ ~cycle.lastRaised)
    /\ ( /\ CycleEnded /\ lastAccept >= 0 /\ now - lastAccept > WatchdogTenths
         /\ cycle.wheelWrites = << >> )
       => wheel = StopCommand

\* a command with arm_positions and raw_velocity whose arm write raised was
\* drained in a cycle that began more than 0.5 s after the last wheel write,
\* and the watchdog fired
C28_Witness ==
    /\ CycleEnded /\ lastAccept >= 0 /\ now - lastAccept > WatchdogTenths
    /\ cycle.ndrained > 0
    /\ cycle.lastMsg.vel = "V2" /\ cycle.lastRaised
    /\ cycle.refreshes = << >>
    /\ cycle.fired /\ wheel = StopCommand

\* C29: from the moment the watchdog forces a stop until a raw_velocity
\* command is applied, the commanded wheel velocity is all-zero; a cycle in
\* which the watchdog fired ends with the timer reset to that cycle's now.
C29_ForcedStopHolds ==
    /\ stopForced => wheel = StopCommand
    /\ (CycleEnded /\ cycle.fired) => last_cmd_time = now

\* a cycle after the one of the forced stop wrote the arm and sent its
\* observation, the wheels still stopped
C29_Witness ==
    /\ stopForced /\ wheel = StopCommand
    /\ pc = "sleep" /\ CycleEnded /\ ~cycle.fired
    /\ cycle.armWrites # << >>
    /\ lastAccept >= 0
    /\ video_socket = << StopCommand >>

(***************************************************************************)
(* Properties of the kinematics transform, checked under SpecKin.          *)
(***************************************************************************)
Forwarded == kinOut.op \in {"forward", "inverse"}

Magnitude(raw) == raw % SignBit

HasSignBit(raw) == (raw \div SignBit) % 2 = 1

UnscaledMax == Max3(<< Abs(kinOut.n[1]), Abs(kinOut.n[2]), Abs(kinOut.n[3]) >>)

\* C11: for a max_raw in 0..0x7FFF, the magnitude (low 15 bits) of each of
\* the three wheel values body_to_wheel_raw returns is at most max_raw.
C11_WheelMagnitudesWithinMaxRaw ==
    Forwarded => \A i \in 1..3 : Magnitude(kinOut.wheels[i]) <= kin.max_raw

\* a saturating command whose fastest wheel is commanded exactly max_raw
C11_Witness ==
    /\ kinOut.op = "forward" /\ kinOut.sat
    /\ kin.max_raw = DefaultMaxRaw
    /\ \E i \in 1..3 : Magnitude(kinOut.wheels[i]) = DefaultMaxRaw
    /\ \E i \in 1..3 : Magnitude(kinOut.wheels[i]) \in 1..(DefaultMaxRaw - 1)

C13_DecodeInvertsEncode ==
    kinOut.op = "decode" => kinOut.dec = [sign |-> kin.sign, mag |-> kin.mag]

\* C13, amended: the round trip gives back the magnitude and the sign for
\* every magnitude in 1..0x7FFF with either sign and for magnitude 0 with
\* the positive sign; magnitude 0 with the negative sign (-0.0) encodes to
\* 0 and decodes to magnitude 0 with the positive sign.
C13_DecodeInvertsEncodeButNegativeZero ==
    kinOut.op = "decode" =>
        IF kin.mag = 0 /\ kin.sign = "-"
        THEN kinOut.raw = 0 /\ kinOut.dec = [sign |-> "+", mag |-> 0]
        ELSE kinOut.dec = [sign |-> kin.sign, mag |-> kin.mag]

\* the largest negative speed went through the round trip
C13_Witness ==
    /\ kinOut.op = "decode"
    /\ kin.sign = "-" /\ kin.mag = MaxMagnitude
    /\ kinOut.raw = MaxMagnitude + SignBit
    /\ kinOut.dec = [sign |-> "-", mag |-> MaxMagnitude]

\* The body velocity the round trip should give back, as the numerators
\* WheelRawToBody returns (X * 1536, Y * 1536, T * 384).
ExactBody == << 1536 * kin.x, 1536 * kin.y, 384 * kin.theta >>

RoundTripped == kinOut.op = "inverse" /\ ~kinOut.sat

\* C14, as stated: without saturation the round trip gives back (x, y,
\* theta) within floating-point tolerance.  The tolerance allowed here is
\* far wider than floating point needs: 0.01 unit of X and of Y (1.5e-6
\* and 0.9e-6 m/s) and 0.001 deg/s.
C14_RoundTripWithinFloatTolerance ==
    RoundTripped =>
        /\ Abs(kinOut.body[1] - ExactBody[1]) <= 15
        /\ Abs(kinOut.body[2] - ExactBody[2]) <= 15
        /\ Abs(kinOut.body[3] - ExactBody[3]) <= 3

\* C14, amended: without saturation the round trip gives back (x, y,
\* theta) up to the rounding of each wheel speed to a whole tick, half a
\* tick (45/1024 deg/s) a wheel: 450/1536 unit of X (0.045 mm/s), 900/1536
\* unit of Y (0.052 mm/s) and 67.5/384 tenth of a deg/s (0.018 deg/s).
C14_RoundTripWithinTickRounding ==
    RoundTripped =>
        /\ Abs(kinOut.body[1] - ExactBody[1]) <= 450
        /\ Abs(kinOut.body[2] - ExactBody[2]) <= 900
        /\ 2 * Abs(kinOut.body[3] - ExactBody[3]) <= 135

\* a command moving on all three axes came back inexactly, a wheel backwards
C14_Witness ==
    /\ RoundTripped
    /\ kin.x # 0 /\ kin.y # 0 /\ kin.theta # 0
    /\ \E i \in 1..3 : HasSignBit(kinOut.wheels[i])
    /\ kinOut.body[1] # ExactBody[1]
    /\ kinOut.body[3] # ExactBody[3]

Snapshots == { published[k] : k \in 1..Len(published) }

\* C22: the image map the control loop copied for an observation is the
\* shared map as it stood after a whole number of completed capture rounds,
\* never a mix of two rounds; the capture thread holds the lock only while
\* it publishes a finished round, and the control loop holds it only while
\* it copies.
C22_ConsistentSnapshot ==
    /\ ctl.copied => images_dict_copy \in Snapshots
    /\ images_lock = "capture" <=> cam.pc = "update"
    /\ images_lock = "control" <=> ctl.pc = "copy"
    /\ cam.pc = "update" =>
          \A c \in AgentCams : local_dict[c] \in Encoded(cam.round)

\* a copy of the first round was taken while the capture thread was in the
\* middle of capturing the second round
C22_Witness ==
    /\ ctl.copied /\ Len(published) = 2 /\ images_dict_copy = published[2]
    /\ \A c \in AgentCams : images_dict_copy[c].round = 1
    /\ cam.pc = "capture" /\ cam.round = 2 /\ cam.i = 2

\* b occurs in the shutdown log only after a
LoggedBefore(a, b) ==
    \A j \in 1..Len(shutdownLog) :
        shutdownLog[j] = b => \E i \in 1..(j - 1) : shutdownLog[i] = a

\* the statements that release the motor bus and the transports
Releases == {"disconnect_bus", "close_cmd", "close_video", "term"}

\* C23: in every shutdown the flag is set and the capture thread joined
\* (and so ended) before the motor bus is disconnected, a socket closed or
\* the context terminated, and the wheel stop is issued before the motor
\* bus is disconnected; shutdown begins only once the control loop is left.
C23_ShutdownOrder ==
    /\ \A r \in Releases : LoggedBefore("set", r) /\ LoggedBefore("join", r)
    /\ LoggedBefore("stop", "disconnect_bus")
    /\ (\E j \in 1..Len(shutdownLog) : shutdownLog[j] = "join") =>
          (stop_event /\ cam.pc = "done")
    /\ shutdownLog # << >> => ctl.pc \in {"finally", "exited"}

\* a shutdown that ran all its statements after an interrupt that came
\* while the capture thread was in the middle of a round
C23_Witness ==
    /\ ctl.pc = "exited"
    /\ shutdownLog = ShutdownSteps
    /\ cam.round = 2 /\ Len(published) = 3

\* C24 (as the specification states it): the control loop and the capture
\* thread both test the cancellation flag on each iteration.
C24_BothLoopsTestFlag ==
    /\ cam.flagReads >= cam.round
    /\ ctl.flagReads >= ctl.iter

\* C24 (amended): the capture thread tests the flag at the start of each
\* round, starts no round once the flag is set and then ends; the control
\* loop never tests the flag, and the flag is set only after the control
\* loop was left.
C24_CaptureThreadCancelled ==
    /\ [][stop_event => cam'.round = cam.round]_vars
    /\ stop_event ~> (cam.pc = "done")
    /\ [](cam.flagReads >= cam.round)
    /\ [](ctl.flagReads = 0)
    /\ [](stop_event => ctl.pc \in {"finally", "exited"})

\* the flag was set in the middle of the second round; the thread finished
\* that round, tested the flag and ended
C24_Witness ==
    /\ stop_event /\ cam.pc = "done"
    /\ cam.round = 2 /\ cam.flagReads = 3 /\ Len(published) = 3
    /\ ctl.iter = 1

====
